---- MODULE Spec2Model ----
(***************************************************************************)
(* Model of FlightPhysics (src/src/utils/flightPhysics.ts) and of the key  *)
(* handlers of the host component that own the FlightControls object.      *)
(*                                                                         *)
(* Numbers are fixed-point: the integer n stands for the JavaScript number *)
(* n / Scale (Scale = 1000), so 0.016 s is 16 and 3.5 is 3500.  A product  *)
(* a * b of the source is Mul(a, b): the exact product rounded to the      *)
(* nearest multiple of 1 / Scale, symmetric in sign like IEEE rounding.    *)
(***************************************************************************)
EXTENDS Integers, FiniteSets, Sequences, TLC

VARIABLES
  this,       \* the FlightPhysics object
  controls,   \* the host's FlightControls object (controlsRef.current)
  calls,      \* number of update calls made so far
  keyEvents,  \* number of key events handled so far
  gearCalls,  \* number of update calls entered with controls.landingGear set
  gearKeys,   \* number of KeyL keydown events since the last update call
  last        \* the last call: the object and controls at entry, and deltaTime

vars == <<this, controls, calls, keyEvents, gearCalls, gearKeys, last>>

\* ------------------------------------------------------------------ numbers
Scale == 1000

Abs(a) == IF a < 0 THEN -a ELSE a
Min(a, b) == IF a < b THEN a ELSE b
Max(a, b) == IF a > b THEN a ELSE b

\* round-half-away-from-zero quotient n / d, d > 0
RoundDiv(n, d) == IF n >= 0 THEN (2 * n + d) \div (2 * d)
                            ELSE -((2 * (-n) + d) \div (2 * d))

Mul(a, b) == RoundDiv(a * b, Scale)
Div(a, b) == RoundDiv(a * Scale, b)

\* Math.PI / 3, Math.PI / 2, Math.PI, 2 * Math.PI in units of 1 / Scale
PiThird == 1047
PiHalf  == 1571
Pi      == 3142
TwoPi   == 6283

\* angle reduced to (-Pi, Pi]
Reduce(a) == LET m == a % TwoPi IN IF m > Pi THEN m - TwoPi ELSE m

\* Taylor polynomials on [-Pi/2, Pi/2]
SinPoly(a) == LET a2 == Mul(a, a)
                  a3 == Mul(a2, a)
                  a5 == Mul(a3, a2)
                  a7 == Mul(a5, a2)
              IN a - RoundDiv(a3, 6) + RoundDiv(a5, 120) - RoundDiv(a7, 5040)
CosPoly(a) == LET a2 == Mul(a, a)
                  a4 == Mul(a2, a2)
                  a6 == Mul(a4, a2)
              IN Scale - RoundDiv(a2, 2) + RoundDiv(a4, 24) - RoundDiv(a6, 720)

Sin(a) == LET r == Reduce(a)
          IN IF r > PiHalf THEN SinPoly(Pi - r)
             ELSE IF r < -PiHalf THEN SinPoly(-Pi - r)
             ELSE SinPoly(r)
Cos(a) == LET r == Reduce(a)
          IN IF r > PiHalf THEN -CosPoly(Pi - r)
             ELSE IF r < -PiHalf THEN -CosPoly(-Pi - r)
             ELSE CosPoly(r)

\* ---------------------------------------------------------------- constants
maxSpeed               == 3500
deceleration           == 120
stallSpeed             == 300
groundHeight           == 800
liftCoefficient        == 300
dragCoefficient        == 80
takeoffSpeed           == 800
baseGravity            == 300
minimumHeight          == 500
controlSmoothingFactor == 15000
controlSensitivity     == 1000
minControlSpeed        == 100
dampingFactor          == 2800
WorldLimit             == 800000
MaxAltitude            == 200000

\* ------------------------------------------------------- update, by section
\* throttleControls without the upper limit Math.min(..., 1.0)
throttleControls_noCeiling(t, c, deltaTime) ==
  LET t1 == IF c.throttle THEN t.throttle + Mul(500, deltaTime) ELSE t.throttle
      t2 == IF c.brake THEN Max(t1 - Mul(500, deltaTime), 0) ELSE t1
  IN [t EXCEPT !.throttle = t2]

\* throttleControls without the lower limit Math.max(..., 0.0)
throttleControls_noFloor(t, c, deltaTime) ==
  LET t1 == IF c.throttle THEN Min(t.throttle + Mul(500, deltaTime), Scale)
                          ELSE t.throttle
      t2 == IF c.brake THEN t1 - Mul(500, deltaTime) ELSE t1
  IN [t EXCEPT !.throttle = t2]

\* Handle throttle controls
throttleControls(t, c, deltaTime) ==
  LET t1 == IF c.throttle THEN Min(t.throttle + Mul(500, deltaTime), Scale)
                          ELSE t.throttle
      t2 == IF c.brake THEN Max(t1 - Mul(500, deltaTime), 0) ELSE t1
  IN [t EXCEPT !.throttle = t2]

\* speedModel without the cap at the target speed maxSpeed * throttle
speedModel_noCap(t, deltaTime) ==
  LET acceleration == Mul(Mul(t.throttle, maxSpeed), Scale)
      s1 == IF t.throttle > 0
              THEN t.speed + Mul(acceleration, deltaTime)
              ELSE Max(t.speed - Mul(deceleration, deltaTime), 0)
      s2 == Max(s1 - Mul(t.drag, deltaTime), 0)
  IN [t EXCEPT !.speed = s2]

\* speedModel applying the drag of the speed just computed, not the stored one
speedModel_freshDrag(t, deltaTime) ==
  LET acceleration == Mul(Mul(t.throttle, maxSpeed), Scale)
      s1 == IF t.throttle > 0
              THEN Min(t.speed + Mul(acceleration, deltaTime),
                       Mul(maxSpeed, t.throttle))
              ELSE Max(t.speed - Mul(deceleration, deltaTime), 0)
      s2 == Max(s1 - Mul(Mul(Mul(s1, s1), dragCoefficient), deltaTime), 0)
  IN [t EXCEPT !.speed = s2]

\* speedModel without the floor at 0 of the decelerated speed
speedModel_noFloor(t, deltaTime) ==
  LET acceleration == Mul(Mul(t.throttle, maxSpeed), Scale)
      s1 == IF t.throttle > 0
              THEN Min(t.speed + Mul(acceleration, deltaTime),
                       Mul(maxSpeed, t.throttle))
              ELSE t.speed - Mul(deceleration, deltaTime)
      s2 == s1 - Mul(t.drag, deltaTime)
  IN [t EXCEPT !.speed = s2]

\* speedModel without the deceleration at throttle 0
speedModel_noDecay(t, deltaTime) ==
  LET acceleration == Mul(Mul(t.throttle, maxSpeed), Scale)
      s1 == IF t.throttle > 0
              THEN Min(t.speed + Mul(acceleration, deltaTime),
                       Mul(maxSpeed, t.throttle))
              ELSE t.speed
      s2 == Max(s1 - Mul(t.drag, deltaTime), 0)
  IN [t EXCEPT !.speed = s2]

\* Calculate speed based on throttle and physics, then apply the stored drag
speedModel(t, deltaTime) ==
  LET acceleration == Mul(Mul(t.throttle, maxSpeed), Scale)
      s1 == IF t.throttle > 0
              THEN Min(t.speed + Mul(acceleration, deltaTime),
                       Mul(maxSpeed, t.throttle))
              ELSE Max(t.speed - Mul(deceleration, deltaTime), 0)
      s2 == Max(s1 - Mul(t.drag, deltaTime), 0)
  IN [t EXCEPT !.speed = s2]

\* runwayAndStall with the negation of isOnRunway dropped from the stall check
runwayAndStall_stallOnRunway(t) ==
  LET runwayZ == Abs(t.position.z) < 100000 /\ Abs(t.position.x) < 25000
      onRunway == runwayZ /\ t.position.y <= groundHeight + 100
      stalling == t.speed < stallSpeed /\ onRunway /\ t.position.y > 2000
  IN [t EXCEPT !.isOnRunway = onRunway, !.isStalling = stalling]

\* runwayAndStall with the stall flag latched once set
runwayAndStall_latched(t) ==
  LET runwayZ == Abs(t.position.z) < 100000 /\ Abs(t.position.x) < 25000
      onRunway == runwayZ /\ t.position.y <= groundHeight + 100
      stalling == t.isStalling \/
                  (t.speed < stallSpeed /\ ~onRunway /\ t.position.y > 2000)
  IN [t EXCEPT !.isOnRunway = onRunway, !.isStalling = stalling]

\* runwayAndStall without the 0.1 tolerance above groundHeight
runwayAndStall_noTolerance(t) ==
  LET runwayZ == Abs(t.position.z) < 100000 /\ Abs(t.position.x) < 25000
      onRunway == runwayZ /\ t.position.y <= groundHeight
      stalling == t.speed < stallSpeed /\ ~onRunway /\ t.position.y > 2000
  IN [t EXCEPT !.isOnRunway = onRunway, !.isStalling = stalling]

\* Check if on runway, check for stall condition
runwayAndStall(t) ==
  LET runwayZ == Abs(t.position.z) < 100000 /\ Abs(t.position.x) < 25000
      onRunway == runwayZ /\ t.position.y <= groundHeight + 100
      stalling == t.speed < stallSpeed /\ ~onRunway /\ t.position.y > 2000
  IN [t EXCEPT !.isOnRunway = onRunway, !.isStalling = stalling]

\* angleOfAttackEffect without the falloff above 0.35 rad
angleOfAttackEffect_noFalloff(angleOfAttack) ==
  IF angleOfAttack < -300 THEN 200
  ELSE Scale + Mul(angleOfAttack, 3000)

angleOfAttackEffect(angleOfAttack) ==
  IF angleOfAttack < -300 THEN 200
  ELSE IF angleOfAttack <= 350 THEN Scale + Mul(angleOfAttack, 3000)
  ELSE 2000 - Mul(angleOfAttack - 350, 2000)

\* Calculate lift and drag
liftAndDrag(t) ==
  LET newDrag == Mul(Mul(t.speed, t.speed), dragCoefficient)
      speedFactor == Mul(t.speed, t.speed)
      baseLift == Mul(Mul(speedFactor, liftCoefficient),
                      Max(100, angleOfAttackEffect(t.rotation.x)))
      newLift == IF t.isStalling THEN Mul(baseLift, 200) ELSE baseLift
  IN [t EXCEPT !.drag = newDrag, !.lift = newLift]

\* applyLift without the speed thresholds
applyLift_always(t, deltaTime) ==
  [t EXCEPT !.position.y = @ + Mul(t.lift, deltaTime)]

\* applyLift applying the full lift at medium speeds too
applyLift_noFraction(t, deltaTime) ==
  IF t.speed > 400
    THEN [t EXCEPT !.position.y = @ + Mul(t.lift, deltaTime)]
  ELSE t

\* Apply lift when speed is sufficient for takeoff
applyLift(t, deltaTime) ==
  IF t.speed > takeoffSpeed
    THEN [t EXCEPT !.position.y = @ + Mul(t.lift, deltaTime)]
  ELSE IF t.speed > 400
    THEN [t EXCEPT !.position.y =
                     @ + Mul(Mul(t.lift, deltaTime), Div(t.speed, takeoffSpeed))]
  ELSE t

\* applyGravity applied on the runway as well
applyGravity_always(t, deltaTime) ==
  LET gravityMultiplier == IF t.isStalling THEN 2500 ELSE 1000
  IN [t EXCEPT !.position.y =
                 @ - Mul(Mul(baseGravity, deltaTime), gravityMultiplier)]

\* Apply gravity when not on runway (increased during stall)
applyGravity(t, deltaTime) ==
  IF ~t.isOnRunway
    THEN LET gravityMultiplier == IF t.isStalling THEN 2500 ELSE 1000
         IN [t EXCEPT !.position.y =
                        @ - Mul(Mul(baseGravity, deltaTime), gravityMultiplier)]
    ELSE t

\* groundCollision resetting the altitude to minimumHeight (min for max)
groundCollision_minimum(t, deltaTime) ==
  IF t.position.y < groundHeight
    THEN LET g == [t EXCEPT !.position.y = Min(groundHeight, minimumHeight)]
         IN IF g.isOnRunway
              THEN LET sp == Max(g.speed - Mul(200, deltaTime), 0)
                       avx == Mul(g.angularVelocity.x, 920)
                       avz == Mul(g.angularVelocity.z, 920)
                       attitudeForce == Mul(Mul(80 - g.rotation.x, 500), deltaTime)
                   IN [g EXCEPT !.speed = sp,
                                !.angularVelocity.x =
                                   IF sp < 300 THEN avx + attitudeForce ELSE avx,
                                !.angularVelocity.z = avz]
              ELSE [g EXCEPT !.speed = Max(g.speed - Mul(800, deltaTime), 0)]
    ELSE t

\* groundCollision with the rough-ground friction not floored at 0
groundCollision_noFloor(t, deltaTime) ==
  IF t.position.y < groundHeight
    THEN LET g == [t EXCEPT !.position.y = Max(groundHeight, minimumHeight)]
         IN IF g.isOnRunway
              THEN LET sp == Max(g.speed - Mul(200, deltaTime), 0)
                       avx == Mul(g.angularVelocity.x, 920)
                       avz == Mul(g.angularVelocity.z, 920)
                       attitudeForce == Mul(Mul(80 - g.rotation.x, 500), deltaTime)
                   IN [g EXCEPT !.speed = sp,
                                !.angularVelocity.x =
                                   IF sp < 300 THEN avx + attitudeForce ELSE avx,
                                !.angularVelocity.z = avz]
              ELSE [g EXCEPT !.speed = g.speed - Mul(800, deltaTime)]
    ELSE t

\* Prevent ground collision and improve ground physics
groundCollision(t, deltaTime) ==
  IF t.position.y < groundHeight
    THEN LET g == [t EXCEPT !.position.y = Max(groundHeight, minimumHeight)]
         IN IF g.isOnRunway
              THEN LET sp == Max(g.speed - Mul(200, deltaTime), 0)
                       avx == Mul(g.angularVelocity.x, 920)
                       avz == Mul(g.angularVelocity.z, 920)
                       attitudeForce == Mul(Mul(80 - g.rotation.x, 500), deltaTime)
                   IN [g EXCEPT !.speed = sp,
                                !.angularVelocity.x =
                                   IF sp < 300 THEN avx + attitudeForce ELSE avx,
                                !.angularVelocity.z = avz]
              ELSE [g EXCEPT !.speed = Max(g.speed - Mul(800, deltaTime), 0)]
    ELSE t

speedEffectiveness(t) == Min(Scale, Max(100, Div(t.speed, 600)))

\* controlSmoothing with the step not scaled by deltaTime
controlSmoothing_unscaled(t, c, deltaTime) ==
  LET targetPitchInput == IF c.pitchUp THEN -Scale
                          ELSE IF c.pitchDown THEN Scale ELSE 0
      targetRollInput  == IF c.right THEN Scale
                          ELSE IF c.left THEN -Scale ELSE 0
      targetYawInput   == IF c.yawRight THEN Scale
                          ELSE IF c.yawLeft THEN -Scale ELSE 0
      step(target, input) ==
        input + Mul(target - input, controlSmoothingFactor)
  IN [t EXCEPT !.pitchInput = step(targetPitchInput, @),
               !.rollInput  = step(targetRollInput, @),
               !.yawInput   = step(targetYawInput, @)]

\* Smooth control input processing
controlSmoothing(t, c, deltaTime) ==
  LET targetPitchInput == IF c.pitchUp THEN -Scale
                          ELSE IF c.pitchDown THEN Scale ELSE 0
      targetRollInput  == IF c.right THEN Scale
                          ELSE IF c.left THEN -Scale ELSE 0
      targetYawInput   == IF c.yawRight THEN Scale
                          ELSE IF c.yawLeft THEN -Scale ELSE 0
      step(target, input) ==
        input + Mul(Mul(target - input, controlSmoothingFactor), deltaTime)
  IN [t EXCEPT !.pitchInput = step(targetPitchInput, @),
               !.rollInput  = step(targetRollInput, @),
               !.yawInput   = step(targetYawInput, @)]

\* Auto-trim system
autoTrim(t, deltaTime) ==
  LET p == IF Abs(t.pitchInput) < 100 /\ t.speed > 400
             THEN Max(-300, Min(300,
                    t.pitchTrim + Mul(t.rotation.x, Mul(300, deltaTime))))
             ELSE t.pitchTrim
      r == IF Abs(t.rollInput) < 100 /\ t.speed > 400
             THEN Max(-200, Min(200,
                    t.rollTrim + Mul(t.rotation.z, Mul(500, deltaTime))))
             ELSE t.rollTrim
  IN [t EXCEPT !.pitchTrim = p, !.rollTrim = r]

\* Calculate control forces based on airspeed
controlForces(t, deltaTime) ==
  IF t.speed > minControlSpeed
    THEN LET eff == speedEffectiveness(t)
             pitchForce ==
               Mul(Mul(Mul(t.pitchInput, controlSensitivity), eff), 1000)
             rollForce ==
               Mul(Mul(Mul(t.rollInput, controlSensitivity), eff), 1400)
             yawForce ==
               Mul(Mul(Mul(t.yawInput, controlSensitivity), eff), 800)
         IN [t EXCEPT !.angularVelocity.x = @ + Mul(pitchForce, deltaTime),
                      !.angularVelocity.z = @ + Mul(rollForce, deltaTime),
                      !.angularVelocity.y = @ + Mul(yawForce, deltaTime)]
    ELSE t

\* Apply aerodynamic stability forces
stabilityForces(t, deltaTime) ==
  IF t.speed > minControlSpeed
    THEN LET stabilityStrength == Mul(speedEffectiveness(t), 600)
             pitchStabilityForce ==
               Mul(Mul(-(t.rotation.x - t.pitchTrim), stabilityStrength), 1200)
             rollStabilityForce ==
               Mul(Mul(-(t.rotation.z - t.rollTrim), stabilityStrength), 1800)
             yawStabilityForce ==
               Mul(Mul(-t.rotation.y, stabilityStrength), 500)
         IN [t EXCEPT
               !.angularVelocity.x = @ + Mul(pitchStabilityForce, deltaTime),
               !.angularVelocity.z = @ + Mul(rollStabilityForce, deltaTime),
               !.angularVelocity.y = @ + Mul(yawStabilityForce, deltaTime)]
    ELSE t

\* angularDamping with the damping factor not scaled by deltaTime
angularDamping_unscaled(t, deltaTime) ==
  LET k == Max(0, Scale - dampingFactor)
  IN [t EXCEPT !.angularVelocity.x = Mul(@, k),
               !.angularVelocity.y = Mul(@, k),
               !.angularVelocity.z = Mul(@, k)]

\* Apply angular damping
angularDamping(t, deltaTime) ==
  LET k == Max(0, Scale - Mul(dampingFactor, deltaTime))
  IN [t EXCEPT !.angularVelocity.x = Mul(@, k),
               !.angularVelocity.y = Mul(@, k),
               !.angularVelocity.z = Mul(@, k)]

\* Apply angular velocity to rotation
integrateRotation(t, deltaTime) ==
  [t EXCEPT !.rotation.x = @ + Mul(t.angularVelocity.x, deltaTime),
            !.rotation.y = @ + Mul(t.angularVelocity.y, deltaTime),
            !.rotation.z = @ + Mul(t.angularVelocity.z, deltaTime)]

\* limitAttitude limiting the roll only
limitAttitude_rollOnly(t) ==
  [t EXCEPT !.rotation.z = Max(-PiHalf, Min(PiHalf, @))]

\* Limit extreme attitudes
limitAttitude(t) ==
  [t EXCEPT !.rotation.x = Max(-PiThird, Min(PiThird, @)),
            !.rotation.z = Max(-PiHalf, Min(PiHalf, @))]

\* Landing gear toggle: the new isGearDown (the flag is cleared in update)
landingGearToggle(t, c) ==
  IF c.landingGear THEN [t EXCEPT !.isGearDown = ~@] ELSE t

\* controlsAfter without the reset of the landingGear flag
controlsAfter_noReset(c) == c

\* controls as update leaves the caller's object
controlsAfter(c) ==
  IF c.landingGear THEN [c EXCEPT !.landingGear = FALSE] ELSE c

\* forwardVector = (0, 0, 1).applyEuler(rotation), Euler order XYZ
forwardVector(rotation) ==
  [x |-> Sin(rotation.y),
   z |-> Mul(Cos(rotation.x), Cos(rotation.y))]

\* Move plane forward based on speed and direction
moveForward(t) ==
  LET f == forwardVector(t.rotation)
  IN [t EXCEPT !.position.x = @ + Mul(f.x, t.speed),
               !.position.z = @ + Mul(f.z, t.speed)]

\* keepInBounds clamping x and z at the edge they crossed instead of wrapping
keepInBounds_clamp(t) ==
  LET z1 == IF t.position.z > WorldLimit THEN WorldLimit ELSE t.position.z
      z2 == IF z1 < -WorldLimit THEN -WorldLimit ELSE z1
      x1 == IF t.position.x > WorldLimit THEN WorldLimit ELSE t.position.x
      x2 == IF x1 < -WorldLimit THEN -WorldLimit ELSE x1
      y1 == IF t.position.y > MaxAltitude THEN MaxAltitude ELSE t.position.y
  IN [t EXCEPT !.position = [x |-> x2, y |-> y1, z |-> z2]]

\* keepInBounds without the altitude ceiling
keepInBounds_noCeiling(t) ==
  LET z1 == IF t.position.z > WorldLimit THEN -WorldLimit ELSE t.position.z
      z2 == IF z1 < -WorldLimit THEN WorldLimit ELSE z1
      x1 == IF t.position.x > WorldLimit THEN -WorldLimit ELSE t.position.x
      x2 == IF x1 < -WorldLimit THEN WorldLimit ELSE x1
  IN [t EXCEPT !.position = [x |-> x2, y |-> t.position.y, z |-> z2]]

\* Keep plane within bounds
keepInBounds(t) ==
  LET z1 == IF t.position.z > WorldLimit THEN -WorldLimit ELSE t.position.z
      z2 == IF z1 < -WorldLimit THEN WorldLimit ELSE z1
      x1 == IF t.position.x > WorldLimit THEN -WorldLimit ELSE t.position.x
      x2 == IF x1 < -WorldLimit THEN WorldLimit ELSE x1
      y1 == IF t.position.y > MaxAltitude THEN MaxAltitude ELSE t.position.y
  IN [t EXCEPT !.position = [x |-> x2, y |-> y1, z |-> z2]]

\* the state after the vertical integration, before the ground clamp
beforeGround(t, c, deltaTime) ==
  applyGravity(applyLift(liftAndDrag(runwayAndStall(
    speedModel(throttleControls(t, c, deltaTime), deltaTime))), deltaTime),
    deltaTime)

\* the state after the rotation is integrated, before the attitude limits
beforeLimit(t, c, deltaTime) ==
  integrateRotation(
    angularDamping(stabilityForces(controlForces(autoTrim(controlSmoothing(
      groundCollision(beforeGround(t, c, deltaTime), deltaTime),
      c, deltaTime), deltaTime), deltaTime), deltaTime), deltaTime),
    deltaTime)

\* the state after the translation, before the bounds
beforeBounds(t, c, deltaTime) ==
  moveForward(landingGearToggle(limitAttitude(beforeLimit(t, c, deltaTime)), c))

\* FlightPhysics.update: the new state of the object
update(t, c, deltaTime) == keepInBounds(beforeBounds(t, c, deltaTime))

\* ------------------------------------------------------------ state machine
\* exploration bounds
MaxCalls     == 3
MaxKeyEvents == 3

\* deltaTime of the host's animation loop (0.016 s)
FrameTime == 16

\* deltaTime values of the calls explored from the constructed object
DeltaTimes == {0, FrameTime, 100}

\* the largest deltaTime with controlSmoothingFactor * deltaTime <= 1 (1/15 s)
StableDeltaTime == (Scale * Scale) \div controlSmoothingFactor

\* deltaTime values of the single call explored from the sampled states
AnyDeltaTimes == {-FrameTime, 0, FrameTime, StableDeltaTime, 1000}

Flags == {"throttle", "brake", "left", "right", "pitchUp", "pitchDown",
          "yawLeft", "yawRight", "landingGear"}

NoControls == [f \in Flags |-> FALSE]

AllControls == [Flags -> BOOLEAN]

Vec(a, b, c) == [x |-> a, y |-> b, z |-> c]

\* new FlightPhysics()
Constructed ==
  [throttle |-> 0, speed |-> 0,
   position |-> Vec(0, 800, -50000), rotation |-> Vec(0, 0, 0),
   lift |-> 0, drag |-> 0,
   isGearDown |-> TRUE, isOnRunway |-> FALSE, isStalling |-> FALSE,
   pitchInput |-> 0, rollInput |-> 0, yawInput |-> 0,
   pitchTrim |-> 0, rollTrim |-> 0,
   angularVelocity |-> Vec(0, 0, 0)]

\* key codes of the host's keydown / keyup switch and the flag each one names
DownCodes == {"KeyW", "ArrowUp", "KeyS", "ArrowDown", "KeyA", "ArrowLeft",
              "KeyD", "ArrowRight", "KeyR", "KeyF", "KeyZ", "KeyC", "KeyL"}
\* a keyup switch with a case for KeyL
UpCodes_withGear == DownCodes

UpCodes == DownCodes \ {"KeyL"}

FlagOf(code) ==
  CASE code \in {"KeyW", "ArrowUp"}    -> "throttle"
    [] code \in {"KeyS", "ArrowDown"}  -> "brake"
    [] code \in {"KeyA", "ArrowLeft"}  -> "left"
    [] code \in {"KeyD", "ArrowRight"} -> "right"
    [] code = "KeyR" -> "pitchUp"
    [] code = "KeyF" -> "pitchDown"
    [] code = "KeyZ" -> "yawLeft"
    [] code = "KeyC" -> "yawRight"
    [] code = "KeyL" -> "landingGear"

NoCall(t, c) == [pre |-> t, controls |-> c, deltaTime |-> 0, gearKeys |-> 0]

Init ==
  /\ this = Constructed
  /\ controls = NoControls
  /\ calls = 0
  /\ keyEvents = 0
  /\ gearCalls = 0
  /\ gearKeys = 0
  /\ last = NoCall(Constructed, NoControls)

handleKeyDown(code) ==
  /\ calls < MaxCalls
  /\ keyEvents < MaxKeyEvents
  /\ controls' = [controls EXCEPT ![FlagOf(code)] = TRUE]
  /\ keyEvents' = keyEvents + 1
  /\ gearKeys' = IF code = "KeyL" THEN gearKeys + 1 ELSE gearKeys
  /\ UNCHANGED <<this, calls, gearCalls, last>>

handleKeyUp(code) ==
  /\ calls < MaxCalls
  /\ keyEvents < MaxKeyEvents
  /\ controls' = [controls EXCEPT ![FlagOf(code)] = FALSE]
  /\ keyEvents' = keyEvents + 1
  /\ UNCHANGED <<this, calls, gearCalls, gearKeys, last>>

\* one call physics.update(controls, deltaTime)
Update(deltaTime) ==
  /\ this' = update(this, controls, deltaTime)
  /\ controls' = controlsAfter(controls)
  /\ calls' = calls + 1
  /\ gearCalls' = IF controls.landingGear THEN gearCalls + 1 ELSE gearCalls
  /\ UNCHANGED keyEvents
  /\ gearKeys' = 0
  /\ last' = [pre |-> this, controls |-> controls, deltaTime |-> deltaTime,
              gearKeys |-> gearKeys]

KeyDown == \E code \in DownCodes : handleKeyDown(code)
KeyUp   == \E code \in UpCodes : handleKeyUp(code)
Call    == calls < MaxCalls /\ \E deltaTime \in DeltaTimes : Update(deltaTime)

Next == KeyDown \/ KeyUp \/ Call

Spec == Init /\ [][Next]_vars

\* ------------------------------------------- one call from sampled states
\* lift, drag and the two flags as update derives them from the other fields
Derived(t) == liftAndDrag(runwayAndStall(t))

Fly(thr, sp, pos, rot, av) ==
  Derived([Constructed EXCEPT !.throttle = thr, !.speed = sp, !.position = pos,
                              !.rotation = rot, !.angularVelocity = av])

\* update keeps speed <= maxSpeed * throttle whenever throttle > 0
Compatible(thr, sp) == thr = 0 \/ sp <= Mul(maxSpeed, thr)

\* airborne at altitude 10, away from the runway, slow
StallSeeds ==
  { Fly(thr, sp, Vec(0, 10000, 300000), Vec(0, 0, 0), Vec(0, 0, 0)) :
      <<thr, sp>> \in { q \in {0, 58, 150, 1000} \X {200, 500} :
                          Compatible(q[1], q[2]) } }

\* cruising next to a world edge, heading for it, or next to the ceiling
EdgeSeeds ==
  { Fly(1000, 3000, q[1], q[2], Vec(0, 0, 0)) :
      q \in { <<Vec(0, 50000, 799000), Vec(0, 0, 0)>>,
              <<Vec(0, 50000, -799000), Vec(0, Pi, 0)>>,
              <<Vec(799000, 50000, 0), Vec(0, PiHalf, 0)>>,
              <<Vec(-799000, 50000, 0), Vec(0, -PiHalf, 0)>>,
              <<Vec(0, 199990, 0), Vec(350, 0, 0)>> } }

\* at ground height, on and off the runway
GroundSeeds ==
  { Fly(q[1], q[2], pos, Vec(0, 0, 0), Vec(0, 0, 0)) :
      q \in { <<0, 0>>, <<0, 250>>, <<200, 500>>, <<1000, 1000>> },
      pos \in { Vec(0, 800, -50000), Vec(0, 800, 150000),
                Vec(30000, 800, 0), Vec(0, 850, 99000) } }

\* at the attitude and trim limits, still rotating outwards
AttitudeSeeds ==
  { [Fly(1000, 1000, Vec(0, 50000, 300000), q[1], q[2])
       EXCEPT !.pitchTrim = q[3], !.rollTrim = q[4]] :
      q \in { <<Vec(PiThird, 7000, PiHalf), Vec(2000, -500, 2000), 295, 198>>,
              <<Vec(-PiThird, 7000, -PiHalf), Vec(-2000, 500, -2000),
                -295, -198>>,
              <<Vec(200, -7000, -300), Vec(0, 0, 0), 0, 0>> } }

\* smoothed inputs at and near their limits, in level cruise
InputSeeds ==
  { [Fly(1000, 2000, Vec(0, 50000, 300000), Vec(0, 0, 0), Vec(0, 0, 0))
       EXCEPT !.pitchInput = q[1], !.rollInput = q[2], !.yawInput = q[3]] :
      q \in { <<1000, -1000, 500>>, <<-1000, 1000, -7>> } }

\* trims left behind by an earlier attitude: the trim is beyond the present
\* angle, or on the other side of zero
TrimSeeds ==
  { [Fly(1000, 1000, Vec(0, 50000, 300000), Vec(q[1], 0, q[2]), Vec(0, 0, 0))
       EXCEPT !.pitchTrim = q[3], !.rollTrim = q[4]] :
      q \in { <<100, -100, 200, -150>>, <<-100, 100, 50, 150>> } }

\* below stall speed with the nose up and with the nose down
PitchedStallSeeds ==
  { Fly(0, 200, Vec(0, 10000, 300000), Vec(rx, 0, 0), Vec(0, 0, 0)) :
      rx \in {300, -400} }

Seeds == {Constructed} \cup StallSeeds \cup PitchedStallSeeds \cup EdgeSeeds \cup GroundSeeds
           \cup AttitudeSeeds \cup InputSeeds \cup TrimSeeds

SeedControls ==
  { NoControls,
    [NoControls EXCEPT !.throttle = TRUE, !.pitchUp = TRUE, !.right = TRUE],
    [NoControls EXCEPT !.brake = TRUE, !.pitchDown = TRUE, !.left = TRUE,
                       !.yawLeft = TRUE] }

\* the sampled states: the seeds and the states one frame after them
Sampled == Seeds \cup { update(s, c, FrameTime) : s \in Seeds, c \in SeedControls }

InitAny ==
  /\ this \in Sampled
  /\ controls \in AllControls
  /\ calls = 0
  /\ keyEvents = 0
  /\ gearCalls = 0
  /\ gearKeys = (IF controls.landingGear THEN 1 ELSE 0)
  /\ last = NoCall(this, controls)

AnyCall == calls = 0 /\ \E deltaTime \in AnyDeltaTimes : Update(deltaTime)

NextAny == AnyCall

SpecAny == InitAny /\ [][NextAny]_vars

\* ------------------------------------ the throttle flag held, frame by frame
MaxRampCalls == 130

InitRamp ==
  /\ this = Constructed
  /\ controls \in { c \in AllControls : c.throttle /\ ~c.brake }
  /\ calls = 0
  /\ keyEvents = 0
  /\ gearCalls = 0
  /\ gearKeys = (IF controls.landingGear THEN 1 ELSE 0)
  /\ last = NoCall(this, controls)

RampCall == calls < MaxRampCalls /\ Update(FrameTime)

NextRamp == RampCall

SpecRamp == InitRamp /\ [][NextRamp]_vars

\* ------------------------------------- the brake flag held, frame by frame
MaxBrakeCalls == 300

\* deltaTime of the braking runs: the host's frame and a slow frame
BrakeDeltaTimes == {FrameTime, 100}

\* full speed on the runway, cruising, gliding with the throttle closed,
\* rolling off the runway at half throttle, and the constructed object
BrakeSeeds ==
  { Constructed,
    Fly(1000, 3500, Vec(0, 800, -50000), Vec(0, 0, 0), Vec(0, 0, 0)),
    Fly(1000, 3000, Vec(0, 50000, 300000), Vec(100, 0, 0), Vec(0, 0, 0)),
    Fly(0, 500, Vec(0, 10000, 300000), Vec(0, 0, 0), Vec(0, 0, 0)),
    Fly(500, 1000, Vec(30000, 800, 0), Vec(0, 0, 0), Vec(0, 0, 0)) }

BrakeControls ==
  { [NoControls EXCEPT !.brake = TRUE],
    [NoControls EXCEPT !.brake = TRUE, !.pitchUp = TRUE, !.right = TRUE],
    [NoControls EXCEPT !.brake = TRUE, !.pitchDown = TRUE, !.left = TRUE,
                       !.yawLeft = TRUE],
    [NoControls EXCEPT !.brake = TRUE, !.landingGear = TRUE,
                       !.yawRight = TRUE] }

\* last.deltaTime holds the deltaTime of the run from the start
InitBrake ==
  /\ this \in BrakeSeeds
  /\ controls \in BrakeControls
  /\ calls = 0
  /\ keyEvents = 0
  /\ gearCalls = 0
  /\ gearKeys = (IF controls.landingGear THEN 1 ELSE 0)
  /\ \E deltaTime \in BrakeDeltaTimes :
       last = [pre |-> this, controls |-> controls, deltaTime |-> deltaTime,
               gearKeys |-> 0]

BrakeCall == calls < MaxBrakeCalls /\ Update(last.deltaTime)

NextBrake == BrakeCall

\* the step of the animation loop as the call counter sees it: every BrakeCall
\* is such a step, and it is enabled exactly when BrakeCall is
animateFrame == calls < MaxBrakeCalls /\ calls' = calls + 1

\* the animation loop requests the next frame in every frame, so a call that
\* can be made is made
SpecBrake == InitBrake /\ [][NextBrake]_vars /\ WF_calls(animateFrame)

\* --------------------------- the constructed object, throttle key untouched
ParkedDownCodes == { code \in DownCodes : FlagOf(code) # "throttle" }

ParkedKeyDown == \E code \in ParkedDownCodes : handleKeyDown(code)

NextParked == ParkedKeyDown \/ KeyUp \/ Call

SpecParked == Init /\ [][NextParked]_vars

\* ------------------------------------------------------------------ claims
Called == calls > 0

\* the object and the arguments of the last call, and two of its mid-call states
pre      == last.pre
held     == last.controls
dt       == last.deltaTime
unground == beforeGround(last.pre, last.controls, last.deltaTime)
unlimited == beforeLimit(last.pre, last.controls, last.deltaTime)
unwrapped == beforeBounds(last.pre, last.controls, last.deltaTime)

OffRunway(t) == ~(Abs(t.position.z) < 100000 /\ Abs(t.position.x) < 25000)

WrapToEdge(v) == IF v > WorldLimit THEN -WorldLimit
                 ELSE IF v < -WorldLimit THEN WorldLimit ELSE v

Continuous(t) ==
  <<t.throttle, t.speed, t.position, t.rotation, t.angularVelocity, t.lift,
    t.drag, t.pitchInput, t.rollInput, t.yawInput, t.pitchTrim, t.rollTrim>>

\* C1, as stated: a call update(controls, 0) leaves every continuous field of
\* the object unchanged (throttle, speed, position, orientation, angular
\* velocity, lift, drag, smoothed inputs, trims), and isGearDown changes only
\* when landingGear was set.
C1_Idempotent ==
  (Called /\ dt = 0) =>
    /\ Continuous(this) = Continuous(pre)
    /\ (this.isGearDown # pre.isGearDown) => held.landingGear

\* C1, amended: a call update(controls, 0) leaves throttle, speed, altitude,
\* pitch/yaw/roll, angular velocity, the smoothed inputs and both trims
\* unchanged and flips isGearDown exactly when landingGear was set, but x and z
\* still advance by forwardVector * speed (the translation is not scaled by
\* deltaTime) and wrap at the world edge.
C1_ZeroDeltaTime ==
  (Called /\ dt = 0) =>
    LET f == forwardVector(pre.rotation) IN
    /\ this.throttle = pre.throttle
    /\ this.speed = pre.speed
    /\ this.position.y = pre.position.y
    /\ this.rotation = pre.rotation
    /\ this.angularVelocity = pre.angularVelocity
    /\ this.pitchInput = pre.pitchInput
    /\ this.rollInput = pre.rollInput
    /\ this.yawInput = pre.yawInput
    /\ this.pitchTrim = pre.pitchTrim
    /\ this.rollTrim = pre.rollTrim
    /\ (this.isGearDown # pre.isGearDown) <=> held.landingGear
    /\ this.position.x = WrapToEdge(pre.position.x + Mul(f.x, pre.speed))
    /\ this.position.z = WrapToEdge(pre.position.z + Mul(f.z, pre.speed))

\* a call with deltaTime 0 that moved a rotating aircraft and flipped the gear
C1_Witness ==
  /\ Called /\ dt = 0
  /\ pre.speed > 0 /\ pre.angularVelocity.x # 0
  /\ this.position.z # pre.position.z
  /\ held.landingGear /\ this.isGearDown # pre.isGearDown

\* C2, as stated: when the translation takes z (or x) beyond 800 the result is
\* -800 plus the overshoot, and symmetrically below -800.
C2_WrapKeepsOvershoot ==
  Called =>
    /\ unwrapped.position.z > WorldLimit =>
         this.position.z = -WorldLimit + (unwrapped.position.z - WorldLimit)
    /\ unwrapped.position.z < -WorldLimit =>
         this.position.z = WorldLimit - (-WorldLimit - unwrapped.position.z)
    /\ unwrapped.position.x > WorldLimit =>
         this.position.x = -WorldLimit + (unwrapped.position.x - WorldLimit)
    /\ unwrapped.position.x < -WorldLimit =>
         this.position.x = WorldLimit - (-WorldLimit - unwrapped.position.x)

\* C2, amended: when the translation takes z beyond 800 (z = 799, zero
\* orientation, speed 3, deltaTime 1 included) the resulting z is exactly -800,
\* the opposite edge, whatever the overshoot; below -800 it is exactly 800;
\* the same for x.
C2_WrapToEdge ==
  Called =>
    /\ unwrapped.position.z > WorldLimit => this.position.z = -WorldLimit
    /\ unwrapped.position.z < -WorldLimit => this.position.z = WorldLimit
    /\ unwrapped.position.x > WorldLimit => this.position.x = -WorldLimit
    /\ unwrapped.position.x < -WorldLimit => this.position.x = WorldLimit
    /\ ( /\ pre.position.z = 799000 /\ pre.rotation = Vec(0, 0, 0)
         /\ pre.speed = 3000 /\ dt = 1000 ) => this.position.z = -WorldLimit

\* z = 799, zero orientation, speed 3, deltaTime 1: z overshoots 800 by more
\* than 1 and ends at -800
C2_Witness ==
  /\ Called /\ dt = 1000
  /\ pre.position.z = 799000 /\ pre.rotation = Vec(0, 0, 0) /\ pre.speed = 3000
  /\ unwrapped.position.z > WorldLimit + 1000
  /\ this.position.z = -WorldLimit

\* C3, as stated: from speed 0.2 at altitude 10 off the runway one call with
\* deltaTime 0.016 ends stalling, and from speed 0.5 it ends not stalling,
\* for every throttle and every combination of control flags.
C3_StallRule ==
  (Called /\ dt = FrameTime /\ pre.position.y = 10000 /\ OffRunway(pre)) =>
    /\ pre.speed = 200 => this.isStalling
    /\ pre.speed = 500 => ~this.isStalling

\* C3, amended: from speed 0.2 at altitude 10 off the runway one call with
\* deltaTime 0.016 ends stalling; from speed 0.5 it ends not stalling, except
\* when throttle is 0 at entry and the call raises it (throttle flag set, brake
\* clear): the speed is then capped to 3.5 * throttle = 0.028 and the call ends
\* stalling.  Throttle ranges over the values the object can hold with that
\* speed: 0, or at least speed / 3.5.
C3_StallRuleAmended ==
  (Called /\ dt = FrameTime /\ pre.position.y = 10000 /\ OffRunway(pre)) =>
    /\ pre.speed = 200 => this.isStalling
    /\ pre.speed = 500 =>
         (this.isStalling <=> (pre.throttle = 0 /\ held.throttle /\ ~held.brake))

\* speed 0.5 with throttle 0 and the throttle key pressed: the call ends
\* stalling at the capped speed
C3_Witness ==
  /\ Called /\ dt = FrameTime /\ pre.position.y = 10000 /\ OffRunway(pre)
  /\ pre.speed = 500 /\ pre.throttle = 0 /\ held.throttle
  /\ this.isStalling /\ this.speed < stallSpeed

\* C4: a call entered with controls.landingGear set flips isGearDown once and
\* leaves the flag false on the caller's object (the other flags untouched); a
\* call entered with the flag clear leaves isGearDown unchanged; the flag only
\* becomes set by a key event; so isGearDown is its initial value (true) XOR
\* the parity of the number of calls entered with the flag set.
C4_GearToggle ==
  /\ [](this.isGearDown = (Constructed.isGearDown <=> (gearCalls % 2 = 0)))
  /\ [][calls' = calls + 1 =>
          /\ this'.isGearDown =
               (IF controls.landingGear THEN ~this.isGearDown
                                        ELSE this.isGearDown)
          /\ controls'.landingGear = FALSE
          /\ \A f \in Flags \ {"landingGear"} : controls'[f] = controls[f]]_vars
  /\ [][(controls'.landingGear /\ ~controls.landingGear) =>
          keyEvents' = keyEvents + 1]_vars

\* the gear was retracted by one call and a later call, entered with the flag
\* still clear, left it retracted
C4_Witness ==
  /\ calls >= 2 /\ gearCalls = 1
  /\ ~held.landingGear /\ ~controls.landingGear
  /\ ~this.isGearDown /\ ~pre.isGearDown

\* C5: from throttle 0 with the throttle flag held and brake clear, calls with
\* deltaTime 0.016 raise throttle by 0.008 each, never lower it, never take it
\* above 1.0, bring it to exactly 1.0 at the 125th call and keep it there.
C5_ThrottleRamp ==
  /\ this.throttle <= Scale
  /\ this.throttle >= pre.throttle
  /\ calls < 125 => this.throttle = 8 * calls
  /\ calls >= 125 => this.throttle = Scale

\* the 126th call found throttle at 1.0 and left it there
C5_Witness ==
  /\ calls = 126 /\ held.throttle /\ ~held.brake
  /\ pre.throttle = Scale /\ this.throttle = Scale

\* C6: after every call the altitude is at least 0.5, in fact at least
\* groundHeight 0.8: an integrated altitude below 0.8 is replaced by 0.8.
C6_GroundClamp ==
  Called =>
    /\ this.position.y >= minimumHeight
    /\ this.position.y >= groundHeight
    /\ unground.position.y < groundHeight => this.position.y = groundHeight

\* gravity took the altitude below 0.8 and the call reset it to 0.8
C6_Witness ==
  /\ Called /\ dt > 0
  /\ pre.position.y >= groundHeight
  /\ unground.position.y < groundHeight
  /\ this.position.y = groundHeight

\* C7: with deltaTime >= 0, whatever the control flags (throttle and brake
\* together included), throttle stays in [0, 1].
C7_ThrottleBound == dt >= 0 => (this.throttle >= 0 /\ this.throttle <= Scale)

\* throttle and brake held together for one second at full throttle: the
\* ceiling applies first, then the brake
C7_Witness ==
  /\ Called /\ dt = 1000 /\ held.throttle /\ held.brake
  /\ pre.throttle = Scale /\ this.throttle = 500

\* C8: after every call, negative deltaTime included, speed >= 0.
C8_SpeedNonNegative == Called => this.speed >= 0

\* rough-ground friction larger than the remaining speed: speed ends at 0
C8_Witness ==
  /\ Called /\ dt > 0
  /\ unground.position.y < groundHeight /\ ~this.isOnRunway
  /\ unground.speed > 0 /\ this.speed = 0

\* C9: after every call pitch is in [-pi/3, pi/3], roll in [-pi/2, pi/2],
\* pitchTrim in [-0.3, 0.3] and rollTrim in [-0.2, 0.2]; yaw is the integrated
\* value, not limited.
C9_AttitudeBounds ==
  Called =>
    /\ this.rotation.x >= -PiThird /\ this.rotation.x <= PiThird
    /\ this.rotation.z >= -PiHalf /\ this.rotation.z <= PiHalf
    /\ this.pitchTrim >= -300 /\ this.pitchTrim <= 300
    /\ this.rollTrim >= -200 /\ this.rollTrim <= 200
    /\ this.rotation.y = unlimited.rotation.y

\* pitch, roll and both trims ran into their lower limits in one call while
\* yaw stayed beyond a full half turn
C9_Witness ==
  /\ Called
  /\ unlimited.rotation.x < -PiThird /\ this.rotation.x = -PiThird
  /\ unlimited.rotation.z < -PiHalf /\ this.rotation.z = -PiHalf
  /\ pre.pitchTrim > -300 /\ this.pitchTrim = -300
  /\ pre.rollTrim > -200 /\ this.rollTrim = -200
  /\ this.rotation.y > Pi

\* C10: after every call x and z are in [-800, 800] and y <= 200.
C10_WorldBounds ==
  Called =>
    /\ this.position.x >= -WorldLimit /\ this.position.x <= WorldLimit
    /\ this.position.z >= -WorldLimit /\ this.position.z <= WorldLimit
    /\ this.position.y <= MaxAltitude

\* lift took the altitude above 200 and the call cut it to 200
C10_Witness ==
  /\ Called
  /\ unwrapped.position.y > MaxAltitude
  /\ this.position.y = MaxAltitude

\* the target of each smoothed input under the flags c
TargetPitch(c) == IF c.pitchUp THEN -Scale ELSE IF c.pitchDown THEN Scale ELSE 0
TargetRoll(c)  == IF c.right THEN Scale ELSE IF c.left THEN -Scale ELSE 0
TargetYaw(c)   == IF c.yawRight THEN Scale ELSE IF c.yawLeft THEN -Scale ELSE 0

InUnit(v) == v >= -Scale /\ v <= Scale

\* new lies between old and target, both ends included
Toward(old, new, target) ==
  (old <= new /\ new <= target) \/ (target <= new /\ new <= old)

\* C11: with deltaTime in [0, 1/15], a call that finds the smoothed inputs in
\* [-1, 1] leaves each of them in [-1, 1], between its old value and its
\* target in {-1, 0, +1}: towards the target, never past it.
C11_InputsBounded ==
  ( /\ Called /\ dt >= 0 /\ dt <= StableDeltaTime
    /\ InUnit(pre.pitchInput) /\ InUnit(pre.rollInput) /\ InUnit(pre.yawInput) )
  =>
    /\ InUnit(this.pitchInput) /\ InUnit(this.rollInput) /\ InUnit(this.yawInput)
    /\ Toward(pre.pitchInput, this.pitchInput, TargetPitch(held))
    /\ Toward(pre.rollInput, this.rollInput, TargetRoll(held))
    /\ Toward(pre.yawInput, this.yawInput, TargetYaw(held))

\* full pitch-down input reversed by the pitch-up key with deltaTime at the
\* limit: the input crosses to just short of -1
C11_Witness ==
  /\ Called /\ dt = StableDeltaTime
  /\ pre.pitchInput = Scale /\ held.pitchUp
  /\ this.pitchInput < -900 /\ this.pitchInput > -Scale
  /\ pre.rollInput = -Scale /\ ~held.left /\ ~held.right /\ this.rollInput > pre.rollInput

\* C12: in a call with deltaTime > 0 where, after smoothing, |pitchInput| < 0.1
\* and speed > 0.4, the new pitchTrim is no farther from the pitch angle than
\* the old pitchTrim was; likewise rollTrim and the roll angle; when the
\* condition does not hold the trim is unchanged.
C12_TrimTowardAttitude ==
  (Called /\ dt > 0) =>
    /\ IF Abs(this.pitchInput) < 100 /\ this.speed > 400
         THEN Abs(this.pitchTrim - pre.rotation.x)
                <= Abs(pre.pitchTrim - pre.rotation.x)
         ELSE this.pitchTrim = pre.pitchTrim
    /\ IF Abs(this.rollInput) < 100 /\ this.speed > 400
         THEN Abs(this.rollTrim - pre.rotation.z)
                <= Abs(pre.rollTrim - pre.rotation.z)
         ELSE this.rollTrim = pre.rollTrim

\* C13: after every call isStalling is true exactly when the speed after the
\* call's throttle/decay and drag steps is below 0.3, isOnRunway is false and
\* the altitude at entry is above 2, whatever isStalling was before; isStalling
\* and isOnRunway are never both true.
C13_StallRecomputed ==
  /\ Called =>
       (this.isStalling <=> ( /\ unground.speed < stallSpeed
                              /\ ~this.isOnRunway
                              /\ pre.position.y > 2000 ))
  /\ ~(this.isStalling /\ this.isOnRunway)

\* a stalling aircraft regained speed in one call and the flag dropped
C13_Witness ==
  /\ Called /\ pre.isStalling /\ pre.position.y > 2000
  /\ unground.speed >= stallSpeed /\ ~this.isStalling

\* C14: after a call with deltaTime >= 0 that leaves throttle > 0, speed is at
\* most 3.5 * throttle, also when the speed at entry was above it; speed never
\* exceeds 3.5.
C14_SpeedCap ==
  (Called /\ dt >= 0) =>
    /\ this.throttle > 0 => this.speed <= Mul(maxSpeed, this.throttle)
    /\ this.speed <= maxSpeed

\* gliding at 0.5 with throttle 0, then the throttle key: speed is cut down
\* to the new target
C14_Witness ==
  /\ Called /\ dt > 0 /\ this.throttle > 0
  /\ pre.speed > Mul(maxSpeed, this.throttle)
  /\ this.speed <= Mul(maxSpeed, this.throttle)

\* C15: after every call lift = speed^2 * 0.3 * max(0.1, effect(a)), times 0.2
\* when stalling, with a the pitch at entry, speed the value after the drag
\* step, effect(a) = 0.2 below -0.3, 1 + 3a up to 0.35, 2 - 2(a - 0.35) above;
\* drag = speed^2 * 0.08; both are >= 0.
C15_LiftCurve ==
  Called =>
    LET a    == pre.rotation.x
        sq   == Mul(unground.speed, unground.speed)
        eff  == IF a < -300 THEN 200
                ELSE IF a <= 350 THEN 1000 + 3 * a
                ELSE 2000 - 2 * (a - 350)
        base == Mul(Mul(sq, 300), Max(100, eff))
    IN /\ this.lift = (IF this.isStalling THEN Mul(base, 200) ELSE base)
       /\ this.drag = Mul(sq, 80)
       /\ this.lift >= 0 /\ this.drag >= 0

\* pitch beyond 0.35 rad at flying speed: lift from the falloff branch
C15_Witness ==
  /\ Called /\ pre.rotation.x > 350 /\ unground.speed > takeoffSpeed
  /\ ~this.isStalling /\ this.lift > 0
  /\ this.lift < Mul(Mul(Mul(unground.speed, unground.speed), 300), 2000)

\* C16: a call first updates speed by the throttle/decay rule, then subtracts
\* the drag stored by the previous call times deltaTime (0 for the first
\* call), and only then recomputes drag as 0.08 * speed^2 from that speed,
\* before any ground friction of the same call.
C16_StaleDrag ==
  /\ Constructed.drag = 0
  /\ Called =>
       LET thr == this.throttle
           s1  == IF thr > 0
                    THEN Min(pre.speed + Mul(Mul(thr, 3500), dt), Mul(3500, thr))
                    ELSE Max(pre.speed - Mul(120, dt), 0)
           s2  == Max(s1 - Mul(pre.drag, dt), 0)
       IN /\ unground.speed = s2
          /\ this.drag = Mul(Mul(s2, s2), 80)
          /\ unground.position.y >= groundHeight => this.speed = s2
          /\ (unground.position.y < groundHeight /\ dt >= 0) => this.speed <= s2

\* stored drag slowed the aircraft, then ground friction slowed it further:
\* the new drag is that of the speed before the friction
C16_Witness ==
  /\ Called /\ dt > 0 /\ Mul(pre.drag, dt) > 0
  /\ this.speed < unground.speed
  /\ this.drag = Mul(Mul(unground.speed, unground.speed), 80)
  /\ this.drag # Mul(Mul(this.speed, this.speed), 80)
  /\ this.drag # pre.drag

\* C18: in every call the altitude changes by lift * dt when speed > 0.8, by
\* lift * dt * (speed / 0.8) when 0.4 < speed <= 0.8 and by no lift term below;
\* and by -0.3 * dt (times 2.5 when stalling) exactly when isOnRunway is
\* false; the ground clamp and the 200 cap come after.
C18_VerticalIntegration ==
  Called =>
    LET sp   == unground.speed
        up   == IF sp > 800 THEN Mul(this.lift, dt)
                ELSE IF sp > 400 THEN Mul(Mul(this.lift, dt), Div(sp, 800))
                ELSE 0
        down == IF this.isOnRunway THEN 0
                ELSE Mul(Mul(300, dt), IF this.isStalling THEN 2500 ELSE 1000)
        y1   == pre.position.y + up - down
    IN /\ unground.position.y = y1
       /\ this.position.y = (IF y1 < 800 THEN 800
                             ELSE IF y1 > 200000 THEN 200000 ELSE y1)

\* one second at medium speed off the runway: a fraction of the lift and the
\* plain gravity both moved the altitude
C18_Witness ==
  /\ Called /\ dt = 1000
  /\ unground.speed > 400 /\ unground.speed <= takeoffSpeed
  /\ ~this.isOnRunway /\ ~this.isStalling
  /\ Mul(Mul(this.lift, dt), Div(unground.speed, 800)) > 0
  /\ Mul(Mul(this.lift, dt), Div(unground.speed, 800)) < Mul(this.lift, dt)
  /\ this.position.y = pre.position.y
                         + Mul(Mul(this.lift, dt), Div(unground.speed, 800)) - 300

\* C19: after every call isOnRunway is true exactly when the position at entry
\* had |x| < 25, |z| < 100 and y <= 0.9; it is not evaluated again on the
\* position the call leaves.
C19_RunwayAtEntry ==
  Called =>
    (this.isOnRunway <=> ( /\ Abs(pre.position.x) < 25000
                           /\ Abs(pre.position.z) < 100000
                           /\ pre.position.y <= 900 ))

\* the call moved the aircraft past the runway end and still reports
\* isOnRunway
C19_Witness ==
  /\ Called /\ this.isOnRunway
  /\ pre.position.y > groundHeight
  /\ Abs(this.position.z) >= 100000

\* C20: with deltaTime >= 0 no call that finds the aircraft on the runway
\* integrates an altitude below 0.8, so the runway branch of the ground
\* contact (friction 0.2, damping 0.92, nose-up nudge) is never taken and
\* ground friction is only applied in its off-runway form, speed - 0.8 * dt.
C20_RunwayBranchUnreached ==
  (Called /\ dt >= 0) =>
    /\ this.isOnRunway =>
         /\ unground.position.y >= groundHeight
         /\ this.speed = unground.speed
    /\ unground.position.y < groundHeight =>
         /\ ~this.isOnRunway
         /\ this.speed = Max(unground.speed - Mul(800, dt), 0)

\* rolling on the runway fast enough for lift: the altitude rose, no friction
C20_Witness ==
  /\ Called /\ dt > 0 /\ this.isOnRunway
  /\ unground.speed > 400
  /\ unground.position.y > pre.position.y
  /\ this.speed = unground.speed

\* C17: with brake held, throttle released and the same deltaTime > 0 in
\* every call, throttle and speed eventually are 0 and stay 0; while throttle
\* is 0 every call lowers the speed by at least 0.12 * dt, or to 0.
Stopped == this.throttle = 0 /\ this.speed = 0

C17_BrakeToStop ==
  /\ <>[]Stopped
  /\ [][Stopped => Stopped']_vars
  /\ [][this.throttle = 0 =>
          this'.speed <= Max(this.speed - Mul(deceleration, last'.deltaTime), 0)]_vars

\* a run that started at full throttle: the throttle reached 0 first, the
\* speed was still positive, and this call brought it to 0
C17_Witness ==
  /\ calls > 125 /\ held.brake /\ ~held.throttle /\ dt > 0
  /\ pre.throttle = 0 /\ pre.speed > 0
  /\ Stopped

\* C21: in every call that sets isStalling the speed is below 0.3, so no lift
\* branch is taken: the altitude before the ground clamp is the entry altitude
\* minus 0.3 * dt * 2.5, whatever the pitch, and the factor 0.2 of the stall
\* shows only in the stored lift.
C21_StallNoLift ==
  (Called /\ this.isStalling) =>
    LET sp   == unground.speed
        base == Mul(Mul(Mul(sp, sp), liftCoefficient),
                    Max(100, angleOfAttackEffect(pre.rotation.x)))
        fall == Mul(Mul(baseGravity, dt), 2500)
    IN /\ sp < stallSpeed
       /\ unground.position.y = pre.position.y - fall
       /\ Abs(fall - Mul(750, dt)) <= 1
       /\ dt \in {0, 1000} => fall = Mul(750, dt)
       /\ this.lift = Mul(base, 200)

\* a stalled second with the nose up: lift is stored, the altitude only fell
C21_Witness ==
  /\ Called /\ this.isStalling /\ dt = 1000
  /\ pre.rotation.x > 0 /\ this.lift > 0
  /\ this.position.y = pre.position.y - 750

\* the fields that the parked aircraft keeps
Parked(t) ==
  /\ t.throttle = Constructed.throttle /\ t.speed = Constructed.speed
  /\ t.position = Constructed.position /\ t.rotation = Constructed.rotation
  /\ t.angularVelocity = Constructed.angularVelocity
  /\ t.lift = Constructed.lift /\ t.drag = Constructed.drag
  /\ t.pitchTrim = Constructed.pitchTrim /\ t.rollTrim = Constructed.rollTrim

\* C22, as stated: while the throttle flag is never set, the parked aircraft
\* keeps throttle, speed, position, orientation, angular velocity, lift, drag
\* and trims, isOnRunway stays true, and nothing but the smoothed inputs and
\* isGearDown changes.
C22_OnlyInputsAndGear ==
  [][ /\ Parked(this')
      /\ this'.isOnRunway = this.isOnRunway
      /\ this'.isStalling = this.isStalling ]_vars

\* C22, amended: while the throttle flag is never set and deltaTime >= 0, the
\* parked aircraft keeps throttle, speed, position, orientation, angular
\* velocity, lift, drag and trims and never stalls; isOnRunway is false in the
\* constructed object and true after every call.
C22_ParkedStaysParked ==
  /\ Parked(this)
  /\ ~this.isStalling
  /\ this.isOnRunway <=> Called
  /\ ~controls.throttle

\* two calls with brake held, the gear toggled and a pitch key held: inputs
\* and gear changed, the aircraft did not move
C22_Witness ==
  /\ calls >= 2 /\ dt > 0 /\ held.brake
  /\ this.pitchInput # 0 /\ ~this.isGearDown
  /\ Parked(this) /\ this.isOnRunway

\* C23: a KeyL keydown sets controls.landingGear and no key handler clears
\* it, so the flag is set exactly when at least one KeyL keydown arrived since
\* the last frame; the frame's call flips isGearDown once if there was any
\* number (>= 1) of them and not at all if there was none, and key events
\* alone never flip it.
C23_GearKeysCoalesce ==
  /\ [](controls.landingGear <=> gearKeys >= 1)
  /\ [][calls' = calls + 1 =>
          /\ this'.isGearDown =
               (IF gearKeys >= 1 THEN ~this.isGearDown ELSE this.isGearDown)
          /\ gearCalls' = (IF gearKeys >= 1 THEN gearCalls + 1 ELSE gearCalls)
          /\ gearKeys' = 0]_vars
  /\ [][keyEvents' = keyEvents + 1 =>
          /\ this'.isGearDown = this.isGearDown
          /\ gearKeys' >= gearKeys]_vars

\* two KeyL keydowns arrived before a frame, and its call flipped the gear
\* once
C23_Witness ==
  /\ Called /\ last.gearKeys >= 2
  /\ gearCalls = 1 /\ gearKeys = 0 /\ ~controls.landingGear
  /\ pre.isGearDown = Constructed.isGearDown
  /\ this.isGearDown = ~pre.isGearDown

====
